---- MODULE Spec2Model ----
(***************************************************************************)
(* Model of app.py: the convention checker (check_code_conventions and     *)
(* format_checkstyle_output) and the heuristic rule engine                 *)
(* (best_practices_review).                                                *)
(*                                                                         *)
(* Text is a sequence of lexical tokens.  Every token is a string; the     *)
(* token alphabet is chosen so that no literal of a regular expression of  *)
(* app.py can begin or end inside a token or straddle two tokens, hence a  *)
(* regular expression over characters is matched here token by token:      *)
(*   \w+  a maximal run of word tokens, \s+ a run of blank tokens,         *)
(*   \d+  a run of digit tokens, .  any token but "\n" (any token with     *)
(*   re.DOTALL), a literal the token(s) of the same text.                  *)
(***************************************************************************)
EXTENDS Integers, Sequences, FiniteSets, TLC

VARIABLES
    pc,                 \* position in the function being run
    language,           \* the language tag ("java" or "other", app.py:132)
    code,               \* best_practices_review: the original text
    suggestions,        \* best_practices_review: list of findings
    improved_code,      \* best_practices_review: accumulating rewritten text
    result_text,        \* best_practices_review: "\n".join(suggestions)
    compliance_score,   \* best_practices_review: the score
    jar_exists,         \* os.path.exists(CHECKSTYLE_PATH)
    java_on_path,       \* whether the java executable can be started
    spawned,            \* number of analyzer subprocesses started
    raw_output,         \* format_checkstyle_output: its argument
    lines,              \* raw_output.split("\n"), the lines still to visit
    issues,             \* format_checkstyle_output: list of report lines
    indentation_issues, \* insertion-ordered dict line_no -> list of messages
    report              \* the string returned by the convention checker

vars == <<pc, language, code, suggestions, improved_code, result_text,
          compliance_score, jar_exists, java_on_path, spawned, raw_output,
          lines, issues, indentation_issues, report>>

reviewVars == <<code, suggestions, improved_code, result_text, compliance_score>>
checkerVars == <<jar_exists, java_on_path, spawned, raw_output, lines, issues,
                 indentation_issues, report>>

(***************************************************************************)
(* Bounds of the explored inputs.                                          *)
(***************************************************************************)
MaxFrags == 3
MaxLines == 3

(***************************************************************************)
(* Token classes and helpers shared by all regular expressions.            *)
(***************************************************************************)
WordTokens == {"q", "MAX", "public", "private", "void", "null", "for", "final",
               "List", "Exception", "Vector", "catch", "if", "return",
               "Optional", "ofNullable", "isEmpty", "stream", "forEach"}
UpperTokens == {"MAX"}
SpaceTokens == {" ", "\n"}
DigitTokens == {"1", "2", "3", "4"}

\* s[i], or "" (no token) outside the text
At(s, i) == IF i \in 1..Len(s) THEN s[i] ELSE ""

\* index of the first token at or after i that is not in class C
RECURSIVE RunEnd(_, _, _)
RunEnd(s, i, C) == IF i > Len(s) \/ s[i] \notin C THEN i ELSE RunEnd(s, i + 1, C)

\* index of the first "\n" at or after i (Len(s) + 1 when there is none)
RECURSIVE LineEnd(_, _)
LineEnd(s, i) == IF i > Len(s) \/ s[i] = "\n" THEN i ELSE LineEnd(s, i + 1)

\* str.join: the pieces separated by sep
RECURSIVE Join(_, _)
Join(pieces, sep) ==
    IF pieces = <<>> THEN <<>>
    ELSE IF Len(pieces) = 1 THEN pieces[1]
    ELSE pieces[1] \o <<sep>> \o Join(Tail(pieces), sep)

\* concatenation of a sequence of texts
RECURSIVE Concat(_)
Concat(pieces) == IF pieces = <<>> THEN <<>> ELSE pieces[1] \o Concat(Tail(pieces))

\* the positions of s holding token t
Positions(s, t) == {i \in 1..Len(s) : s[i] = t}

SetMax(S) == CHOOSE x \in S : \A y \in S : y <= x
SetMin(S) == CHOOSE x \in S : \A y \in S : x <= y

(***************************************************************************)
(* best_practices_review: the explanation table and the rule patterns.     *)
(***************************************************************************)
guideline_explanations ==
    [k \in {"1", "2", "3", "4", "5", "6", "7", "8", "9", "10"} |->
        CASE k = "1" -> "Follow Java naming conventions."
          [] k = "2" -> "Use Java Streams and Lambdas instead of imperative loops."
          [] k = "3" -> "Use Optional<T> to avoid NullPointerException."
          [] k = "4" -> "Use defensive copying for collections."
          [] k = "5" -> "Catch specific exceptions before generic ones."
          [] k = "6" -> "Use appropriate data structures."
          [] k = "7" -> "Use private methods unless necessary."
          [] k = "8" -> "Code to interfaces instead of concrete implementations."
          [] k = "9" -> "Avoid unnecessary interfaces."
          [] k = "10" -> "Override hashCode() when overriding equals()."]

UnsupportedReview == <<"Best practice checks are currently only available for Java.">>
NoViolations == <<"No best practice violations found.">>

\* "Guideline k. " + guideline_explanations[k]
Suggestion(k) == <<"Guideline ", k, ". ", guideline_explanations[k]>>

\* re.search(r'\b[A-Z_]+\b', s): a whole word made of capitals only
Detect1(s) ==
    \E i \in 1..Len(s) :
        /\ s[i] \in WordTokens
        /\ At(s, i - 1) \notin WordTokens
        /\ \A j \in i..(RunEnd(s, i, WordTokens) - 1) : s[j] \in UpperTokens

\* Detect2 had it looked for the header "for (init; condition; step)"
MutDetect2CStyle(s) ==
    \E i \in Positions(s, "for") :
        LET a == RunEnd(s, i + 1, SpaceTokens)
            e == LineEnd(s, a + 1)
        IN  /\ At(s, a) = "("
            /\ \E c \in (a + 1)..(e - 1) :
                  /\ s[c] = ";"
                  /\ \E d \in (c + 1)..(e - 1) :
                        /\ s[d] = ";"
                        /\ \E p \in (d + 1)..(e - 1) : s[p] = ")"

\* re.search(r'for\s*\(.*:.*\)', s): "." does not match a newline
Detect2(s) ==
    \E i \in Positions(s, "for") :
        LET a == RunEnd(s, i + 1, SpaceTokens)
            e == LineEnd(s, a + 1)
        IN  /\ At(s, a) = "("
            /\ \E c \in (a + 1)..(e - 1) :
                  /\ s[c] = ":"
                  /\ \E p \in (c + 1)..(e - 1) : s[p] = ")"

\* "== null" in s
Detect3(s) ==
    \E i \in Positions(s, "==") : At(s, i + 1) = " " /\ At(s, i + 2) = "null"

\* re.search(r'private\s+final\s+List<\w+>\s+\w+;', s)
Detect4(s) ==
    \E i \in Positions(s, "private") :
        LET a == RunEnd(s, i + 1, SpaceTokens)
            b == RunEnd(s, a + 1, SpaceTokens)
            c == RunEnd(s, b + 2, WordTokens)
            d == RunEnd(s, c + 1, SpaceTokens)
            e == RunEnd(s, d, WordTokens)
        IN  /\ a > i + 1 /\ At(s, a) = "final"
            /\ b > a + 1 /\ At(s, b) = "List" /\ At(s, b + 1) = "<"
            /\ c > b + 2 /\ At(s, c) = ">"
            /\ d > c + 1
            /\ e > d /\ At(s, e) = ";"

\* re.search(r'catch\s*\(\s*Exception\s+', s)
Detect5(s) ==
    \E i \in Positions(s, "catch") :
        LET a == RunEnd(s, i + 1, SpaceTokens)
            b == RunEnd(s, a + 1, SpaceTokens)
        IN  /\ At(s, a) = "("
            /\ At(s, b) = "Exception"
            /\ At(s, b + 1) \in SpaceTokens

\* "Vector<" in s
Detect6(s) == \E i \in Positions(s, "Vector") : At(s, i + 1) = "<"

\* r'public\s+(\w+\s+\w+\()' matched at position i: <<start of group 1, end of
\* the match>>, or <<0, 0>> when there is no match at i
Match7At(s, i) ==
    LET a == RunEnd(s, i + 1, SpaceTokens)
        b == RunEnd(s, a, WordTokens)
        c == RunEnd(s, b, SpaceTokens)
        d == RunEnd(s, c, WordTokens)
    IN  IF /\ At(s, i) = "public"
           /\ a > i + 1 /\ b > a /\ c > b /\ d > c
           /\ At(s, d) = "("
        THEN <<a, d>> ELSE <<0, 0>>

\* re.search(r'public\s+\w+\s+\w+\(', s)
Detect7(s) == \E i \in 1..Len(s) : Match7At(s, i)[2] # 0

\* re.sub(r'public\s+(\w+\s+\w+\()', r'private \1', s), scanning from i
RECURSIVE Sub7From(_, _)
Sub7From(s, i) ==
    IF i > Len(s) THEN <<>>
    ELSE LET m == Match7At(s, i)
         IN  IF m[2] # 0
             THEN <<"private", " ">> \o SubSeq(s, m[1], m[2]) \o Sub7From(s, m[2] + 1)
             ELSE <<s[i]>> \o Sub7From(s, i + 1)

Rewrite7(s) == Sub7From(s, 1)

\* r'(\w+)\s*==\s*null' matched at position i: <<end of group 1, end of the
\* match>>, or <<0, 0>>
Match3At(s, i) ==
    LET e == RunEnd(s, i, WordTokens)
        a == RunEnd(s, e, SpaceTokens)
        b == RunEnd(s, a + 1, SpaceTokens)
    IN  IF e > i /\ At(s, a) = "==" /\ At(s, b) = "null"
        THEN <<e - 1, b>> ELSE <<0, 0>>

\* re.sub(r'(\w+)\s*==\s*null', r'Optional.ofNullable(\1).isEmpty()', s)
RECURSIVE Sub3From(_, _)
Sub3From(s, i) ==
    IF i > Len(s) THEN <<>>
    ELSE LET m == Match3At(s, i)
         IN  IF m[2] # 0
             THEN <<"Optional", ".", "ofNullable", "(">> \o SubSeq(s, i, m[1])
                    \o <<")", ".", "isEmpty", "(", ")">> \o Sub3From(s, m[2] + 1)
             ELSE <<s[i]>> \o Sub3From(s, i + 1)

Rewrite3(s) == Sub3From(s, 1)

\* r'for\s*\((.*):(.*)\)\s*\{(.*?)\}' with re.DOTALL matched at position i:
\* <<"(" , ":" , ")" , "{" , "}">> positions, or five zeros.  Group 1 and
\* group 2 are greedy (the last ":" before the last usable ")"), group 3 is
\* lazy (the first "}" after the "{").
Match2At(s, i) ==
    LET a == RunEnd(s, i + 1, SpaceTokens)
        Usable == {p \in Positions(s, ")") :
                     /\ p > a
                     /\ At(s, RunEnd(s, p + 1, SpaceTokens)) = "{"
                     /\ \E r \in Positions(s, "}") : r > RunEnd(s, p + 1, SpaceTokens)}
    IN  IF At(s, i) = "for" /\ At(s, a) = "(" /\ Usable # {}
        THEN LET p == SetMax(Usable)
                 Colons == {c \in Positions(s, ":") : a < c /\ c < p}
                 b == RunEnd(s, p + 1, SpaceTokens)
             IN  IF Colons = {} THEN <<0, 0, 0, 0, 0>>
                 ELSE <<a, SetMax(Colons), p, b,
                        SetMin({r \in Positions(s, "}") : r > b})>>
        ELSE <<0, 0, 0, 0, 0>>

\* re.sub(r'for\s*\((.*):(.*)\)\s*\{(.*?)\}', r'\2.stream().forEach(\1 -> {\3})',
\*        s, flags=re.DOTALL)
RECURSIVE Sub2From(_, _)
Sub2From(s, i) ==
    IF i > Len(s) THEN <<>>
    ELSE LET m == Match2At(s, i)
         IN  IF m[5] # 0
             THEN SubSeq(s, m[2] + 1, m[3] - 1)
                    \o <<".", "stream", "(", ")", ".", "forEach", "(">>
                    \o SubSeq(s, m[1] + 1, m[2] - 1)
                    \o <<" ", "->", " ", "{">>
                    \o SubSeq(s, m[4] + 1, m[5] - 1)
                    \o <<"}", ")">> \o Sub2From(s, m[5] + 1)
             ELSE <<s[i]>> \o Sub2From(s, i + 1)

Rewrite2(s) == Sub2From(s, 1)

(***************************************************************************)
(* Inputs of best_practices_review: a text is up to MaxFrags pieces of     *)
(* Java source laid end to end.                                            *)
(***************************************************************************)
Fragments == {
    <<"if", " ", "(", "q", " ", "==", " ", "null", ")", " ", "{", " ", "return", ";", " ", "}">>,
    <<"q", "==", "null">>,
    <<"q", "(", ")", " ", "==", " ", "null">>,
    <<"public", " ", "void", " ", "q", "(", ")">>,
    <<"public", " ", "void", " ", "q", "for", "(", "q", " ", ":", " ", "q", ")", " ", "{", "}">>,
    <<"for", " ", "(", "q", " ", ":", " ", "q", ")", " ", "{">>,
    <<"for", "(", "q", ";", "q", ";", "q", ")", "{", "}">>,
    <<"MAX">>,
    <<"private", " ", "final", " ", "List", "<", "q", ">", " ", "q", ";">>,
    <<"catch", " ", "(", "Exception", " ", "q", ")", "{", "Vector", "<", "q", ">", "}">>,
    <<"\n">> }

Texts == {Concat(fs) : fs \in UNION {[1..n -> Fragments] : n \in 0..MaxFrags}}

Languages == {"java", "other"}

InitReview ==
    /\ pc = "review"
    /\ language \in Languages
    /\ code \in Texts
    /\ suggestions = <<>>
    /\ improved_code = <<>>
    /\ result_text = <<>>
    /\ compliance_score = 0
    /\ jar_exists = FALSE
    /\ java_on_path = FALSE
    /\ spawned = 0
    /\ raw_output = <<>>
    /\ lines = <<>>
    /\ issues = <<>>
    /\ indentation_issues = <<>>
    /\ report = <<>>

\* app.py:55-59
ReviewEnter ==
    /\ pc = "review"
    /\ \/ /\ language # "java"
          /\ result_text' = UnsupportedReview
          /\ improved_code' = code
          /\ compliance_score' = 100
          /\ pc' = "done"
          /\ UNCHANGED suggestions
       \/ /\ language = "java"
          /\ suggestions' = <<>>
          /\ improved_code' = code
          /\ pc' = "rule1"
          /\ UNCHANGED <<result_text, compliance_score>>
    /\ UNCHANGED <<language, code>>
    /\ UNCHANGED checkerVars

\* app.py:74-75
Rule1 ==
    /\ pc = "rule1"
    /\ suggestions' = IF Detect1(code) THEN Append(suggestions, Suggestion("1"))
                      ELSE suggestions
    /\ pc' = "rule2"
    /\ UNCHANGED <<language, code, improved_code, result_text, compliance_score>>
    /\ UNCHANGED checkerVars

\* app.py:77-79
Rule2 ==
    /\ pc = "rule2"
    /\ IF Detect2(code)
       THEN /\ suggestions' = Append(suggestions, Suggestion("2"))
            /\ improved_code' = Rewrite2(improved_code)
       ELSE UNCHANGED <<suggestions, improved_code>>
    /\ pc' = "rule3"
    /\ UNCHANGED <<language, code, result_text, compliance_score>>
    /\ UNCHANGED checkerVars

\* Rule3 had the substitution been applied whether or not "== null" was found
MutRule3Always ==
    /\ pc = "rule3"
    /\ suggestions' = IF Detect3(code) THEN Append(suggestions, Suggestion("3"))
                      ELSE suggestions
    /\ improved_code' = Rewrite3(improved_code)
    /\ pc' = "rule4"
    /\ UNCHANGED <<language, code, result_text, compliance_score>>
    /\ UNCHANGED checkerVars

\* Rule3 had it reported one finding for each "== null" of the text
MutRule3PerMatch ==
    /\ pc = "rule3"
    /\ LET n == Cardinality({i \in Positions(code, "==") :
                               At(code, i + 1) = " " /\ At(code, i + 2) = "null"})
       IN  IF n > 0
           THEN /\ suggestions' = suggestions \o [j \in 1..n |-> Suggestion("3")]
                /\ improved_code' = Rewrite3(improved_code)
           ELSE UNCHANGED <<suggestions, improved_code>>
    /\ pc' = "rule4"
    /\ UNCHANGED <<language, code, result_text, compliance_score>>
    /\ UNCHANGED checkerVars

\* app.py:81-83
Rule3 ==
    /\ pc = "rule3"
    /\ IF Detect3(code)
       THEN /\ suggestions' = Append(suggestions, Suggestion("3"))
            /\ improved_code' = Rewrite3(improved_code)
       ELSE UNCHANGED <<suggestions, improved_code>>
    /\ pc' = "rule4"
    /\ UNCHANGED <<language, code, result_text, compliance_score>>
    /\ UNCHANGED checkerVars

\* app.py:85-86
Rule4 ==
    /\ pc = "rule4"
    /\ suggestions' = IF Detect4(code) THEN Append(suggestions, Suggestion("4"))
                      ELSE suggestions
    /\ pc' = "rule5"
    /\ UNCHANGED <<language, code, improved_code, result_text, compliance_score>>
    /\ UNCHANGED checkerVars

\* app.py:88-89
Rule5 ==
    /\ pc = "rule5"
    /\ suggestions' = IF Detect5(code) THEN Append(suggestions, Suggestion("5"))
                      ELSE suggestions
    /\ pc' = "rule6"
    /\ UNCHANGED <<language, code, improved_code, result_text, compliance_score>>
    /\ UNCHANGED checkerVars

\* app.py:91-92
Rule6 ==
    /\ pc = "rule6"
    /\ suggestions' = IF Detect6(code) THEN Append(suggestions, Suggestion("6"))
                      ELSE suggestions
    /\ pc' = "rule7"
    /\ UNCHANGED <<language, code, improved_code, result_text, compliance_score>>
    /\ UNCHANGED checkerVars

\* Rule7 had its pattern been searched in the rewritten text
MutRule7OnImproved ==
    /\ pc = "rule7"
    /\ IF Detect7(improved_code)
       THEN /\ suggestions' = Append(suggestions, Suggestion("7"))
            /\ improved_code' = Rewrite7(improved_code)
       ELSE UNCHANGED <<suggestions, improved_code>>
    /\ pc' = "score"
    /\ UNCHANGED <<language, code, result_text, compliance_score>>
    /\ UNCHANGED checkerVars

\* app.py:94-96
Rule7 ==
    /\ pc = "rule7"
    /\ IF Detect7(code)
       THEN /\ suggestions' = Append(suggestions, Suggestion("7"))
            /\ improved_code' = Rewrite7(improved_code)
       ELSE UNCHANGED <<suggestions, improved_code>>
    /\ pc' = "score"
    /\ UNCHANGED <<language, code, result_text, compliance_score>>
    /\ UNCHANGED checkerVars

\* ComplianceScore had the deduction been sized by the seven wired rules
MutComplianceScoreWired(deductions, total_guidelines) ==
    LET raw == 100 - (deductions * (100 \div (total_guidelines - 3)))
    IN  IF raw > 0 THEN raw ELSE 0

\* max(0, 100 - (deductions * (100 // total_guidelines)))
ComplianceScore(deductions, total_guidelines) ==
    LET raw == 100 - (deductions * (100 \div total_guidelines))
    IN  IF raw > 0 THEN raw ELSE 0

\* app.py:98-104
ReviewReturn ==
    /\ pc = "score"
    /\ result_text' = IF suggestions # <<>> THEN Join(suggestions, "\n") ELSE NoViolations
    /\ compliance_score' = ComplianceScore(Len(suggestions),
                                           Cardinality(DOMAIN guideline_explanations))
    /\ pc' = "done"
    /\ UNCHANGED <<language, code, suggestions, improved_code>>
    /\ UNCHANGED checkerVars

NextReview ==
    \/ ReviewEnter
    \/ Rule1
    \/ Rule2
    \/ Rule3
    \/ Rule4
    \/ Rule5
    \/ Rule6
    \/ Rule7
    \/ ReviewReturn

SpecReview == InitReview /\ [][NextReview]_vars

(***************************************************************************)
(* format_checkstyle_output.  A line of analyzer output is a sequence of   *)
(* tokens; line numbers, column numbers and messages are the token         *)
(* sequences the pattern captures.                                         *)
(***************************************************************************)
NoStyleIssues == <<"No style issues found.">>
ChecksUnsupported == <<"Convention checks are currently only available for Java.">>
CheckstyleNotFound == <<"Checkstyle not found. Please install and configure it properly.">>
JavaNotFound == <<"Java not found. Ensure Java is installed and added to PATH.">>

\* str.split("\n"): the pieces between the newlines ("" gives one empty piece)
RECURSIVE Split(_)
Split(s) ==
    LET e == LineEnd(s, 1)
    IN  IF e > Len(s) THEN <<s>>
        ELSE <<SubSeq(s, 1, e - 1)>> \o Split(SubSeq(s, e + 1, Len(s)))

\* the tail ":(\d+):(\d+): (.+)" of the line pattern matched at position k:
\* <<end of the line number, end of the column number>>, or <<0, 0>>
TailAt(l, k) ==
    LET d1 == RunEnd(l, k + 1, DigitTokens)
        d2 == RunEnd(l, d1 + 1, DigitTokens)
    IN  IF /\ At(l, k) = ":"
           /\ d1 > k + 1 /\ At(l, d1) = ":"
           /\ d2 > d1 + 1 /\ At(l, d2) = ":"
           /\ At(l, d2 + 1) = " "
           /\ d2 + 2 <= Len(l)
        THEN <<d1 - 1, d2 - 1>> ELSE <<0, 0>>

\* MatchLine had the pattern accepted any severity tag
MutMatchLineAnySeverity(l) ==
    LET starts == {k \in 4..Len(l) : TailAt(l, k)[2] # 0}
    IN  IF At(l, 1) \in {"[WARN]", "[ERROR]"} /\ At(l, 2) = " " /\ starts # {}
        THEN LET k == SetMin(starts)
                 m == TailAt(l, k)
             IN  [line_no |-> SubSeq(l, k + 1, m[1]),
                  col_no |-> SubSeq(l, m[1] + 2, m[2]),
                  message |-> SubSeq(l, m[2] + 3, Len(l))]
        ELSE <<>>

\* re.match(r"\[WARN\] (.+?):(\d+):(\d+): (.+)", l): the groups
\* [line_no, col_no, message], or <<>> when the line does not match.  The
\* path (.+?) is lazy: it ends before the first ":" the tail can start at.
MatchLine(l) ==
    LET starts == {k \in 4..Len(l) : TailAt(l, k)[2] # 0}
    IN  IF At(l, 1) = "[WARN]" /\ At(l, 2) = " " /\ starts # {}
        THEN LET k == SetMin(starts)
                 m == TailAt(l, k)
             IN  [line_no |-> SubSeq(l, k + 1, m[1]),
                  col_no |-> SubSeq(l, m[1] + 2, m[2]),
                  message |-> SubSeq(l, m[2] + 3, Len(l))]
        ELSE <<>>

\* str.lower on one token
Lower(tok) ==
    CASE tok = "Indentation" -> "indentation"
      [] tok = "C" -> "c"
      [] tok = "[WARN]" -> "[warn]"
      [] tok = "[ERROR]" -> "[error]"
      [] OTHER -> tok

\* "indentation" in message.lower()
IsIndentation(message) == \E i \in 1..Len(message) : Lower(message[i]) = "indentation"

\* indentation_issues with message added under line_no (app.py:40-43)
AddIndentation(dict, line_no, message) ==
    IF \E i \in 1..Len(dict) : dict[i].line_no = line_no
    THEN [i \in 1..Len(dict) |->
            IF dict[i].line_no = line_no
            THEN [dict[i] EXCEPT !.messages = Append(@, message)]
            ELSE dict[i]]
    ELSE Append(dict, [line_no |-> line_no, messages |-> <<message>>])

\* f"Line {line_no}, Column {col_no}: {message}"
IssueLine(m) == <<"Line ">> \o m.line_no \o <<", Column ">> \o m.col_no \o <<": ">> \o m.message

Range(f) == {f[i] : i \in DOMAIN f}

\* SetOrders had the messages been joined without set()
MutSetOrdersKeepDuplicates(messages) == {messages}

\* the orders in which iterating set(messages) can yield its elements
SetOrders(messages) ==
    LET S == Range(messages)
    IN  {o \in [1..Cardinality(S) -> S] : Range(o) = S}

\* f"   - Line {line_no}: {', '.join(set(messages))}" for one iteration order
SummaryLine(line_no, order) == <<"   - Line ">> \o line_no \o <<": ">> \o Join(order, ", ")

\* app.py:31-34
FormatEnter ==
    /\ pc = "fmt_enter"
    /\ issues' = <<>>
    /\ indentation_issues' = <<>>
    /\ lines' = Split(raw_output)
    /\ pc' = "fmt_loop"
    /\ UNCHANGED <<language, jar_exists, java_on_path, spawned, raw_output, report>>
    /\ UNCHANGED reviewVars

\* app.py:34-45, one iteration of the loop over the lines
FormatLine ==
    /\ pc = "fmt_loop"
    /\ lines # <<>>
    /\ LET m == MatchLine(Head(lines))
       IN  IF m # <<>>
           THEN IF IsIndentation(m.message)
                THEN /\ indentation_issues' =
                            AddIndentation(indentation_issues, m.line_no, m.message)
                     /\ UNCHANGED issues
                ELSE /\ issues' = Append(issues, IssueLine(m))
                     /\ UNCHANGED indentation_issues
           ELSE UNCHANGED <<issues, indentation_issues>>
    /\ lines' = Tail(lines)
    /\ UNCHANGED <<pc, language, jar_exists, java_on_path, spawned, raw_output, report>>
    /\ UNCHANGED reviewVars

\* app.py:47-52
FormatReturn ==
    /\ pc = "fmt_loop"
    /\ lines = <<>>
    /\ \E orders \in [1..Len(indentation_issues) ->
                        UNION {SetOrders(indentation_issues[i].messages) :
                                 i \in 1..Len(indentation_issues)}] :
          /\ \A i \in 1..Len(indentation_issues) :
                orders[i] \in SetOrders(indentation_issues[i].messages)
          /\ issues' =
                IF indentation_issues # <<>>
                THEN issues \o <<<<"Indentation Issues:">>>> \o
                     [i \in 1..Len(indentation_issues) |->
                        SummaryLine(indentation_issues[i].line_no, orders[i])]
                ELSE issues
    /\ report' = IF issues' # <<>> THEN Join(issues', "\n") ELSE NoStyleIssues
    /\ pc' = "done"
    /\ UNCHANGED <<language, jar_exists, java_on_path, spawned, raw_output, lines,
                   indentation_issues>>
    /\ UNCHANGED reviewVars

(***************************************************************************)
(* Inputs of format_checkstyle_output: up to MaxLines lines of analyzer    *)
(* output joined by newlines.                                              *)
(***************************************************************************)
OutputLines == {
    <<"[WARN]", " ", "C", ":", "p", ":", "1", ":", "2", ":", " ", "m">>,
    <<"[WARN]", " ", "p", ":", "3", ":", "1", ":", " ", "n">>,
    <<"[WARN]", " ", "p", ":", "1", ":", "4", ":", " ", "indentation", " ", "m">>,
    <<"[WARN]", " ", "p", ":", "1", ":", "4", ":", " ", "Indentation", " ", "n">>,
    <<"[WARN]", " ", "p", ":", "3", ":", "4", ":", " ", "indentation", " ", "m">>,
    <<"[ERROR]", " ", "p", ":", "2", ":", "1", ":", " ", "m">>,
    <<"[WARN]", " ", "p", ":", "1", ":", " ", "m">>,
    <<"audit">>,
    <<>> }

RawOutputs == {Join(ls, "\n") : ls \in UNION {[1..n -> OutputLines] : n \in 0..MaxLines}}

InitFormat ==
    /\ pc = "fmt_enter"
    /\ raw_output \in RawOutputs
    /\ language = "java"
    /\ code = <<>>
    /\ suggestions = <<>>
    /\ improved_code = <<>>
    /\ result_text = <<>>
    /\ compliance_score = 0
    /\ jar_exists = TRUE
    /\ java_on_path = TRUE
    /\ spawned = 0
    /\ lines = <<>>
    /\ issues = <<>>
    /\ indentation_issues = <<>>
    /\ report = <<>>

NextFormat ==
    \/ FormatEnter
    \/ FormatLine
    \/ FormatReturn

SpecFormat == InitFormat /\ [][NextFormat]_vars

(***************************************************************************)
(* check_code_conventions.                                                 *)
(***************************************************************************)
InitChecker ==
    /\ pc = "check"
    /\ language \in Languages
    /\ jar_exists \in BOOLEAN
    /\ java_on_path \in BOOLEAN
    /\ spawned = 0
    /\ raw_output = <<>>
    /\ lines = <<>>
    /\ issues = <<>>
    /\ indentation_issues = <<>>
    /\ report = <<>>
    /\ code = <<>>
    /\ suggestions = <<>>
    /\ improved_code = <<>>
    /\ result_text = <<>>
    /\ compliance_score = 0

\* CheckEnter had the artifact been looked for before the language tag
MutCheckEnterArtifactFirst ==
    /\ pc = "check"
    /\ IF ~jar_exists
       THEN /\ report' = CheckstyleNotFound
            /\ pc' = "done"
       ELSE IF language = "java"
            THEN /\ pc' = "run"
                 /\ UNCHANGED report
            ELSE /\ report' = ChecksUnsupported
                 /\ pc' = "done"
    /\ UNCHANGED <<language, jar_exists, java_on_path, spawned, raw_output, lines,
                   issues, indentation_issues>>
    /\ UNCHANGED reviewVars

\* app.py:14-16 and 28
CheckEnter ==
    /\ pc = "check"
    /\ IF language = "java"
       THEN IF ~jar_exists
            THEN /\ report' = CheckstyleNotFound
                 /\ pc' = "done"
            ELSE /\ pc' = "run"
                 /\ UNCHANGED report
       ELSE /\ report' = ChecksUnsupported
            /\ pc' = "done"
    /\ UNCHANGED <<language, jar_exists, java_on_path, spawned, raw_output, lines,
                   issues, indentation_issues>>
    /\ UNCHANGED reviewVars

\* app.py:18-26: subprocess.run starts the analyzer and captures its standard
\* output, or raises FileNotFoundError when there is no java executable
RunAnalyzer ==
    /\ pc = "run"
    /\ \/ /\ java_on_path
          /\ spawned' = spawned + 1
          /\ \E stdout \in RawOutputs :
                IF stdout # <<>>
                THEN /\ raw_output' = stdout
                     /\ pc' = "fmt_enter"
                     /\ UNCHANGED report
                ELSE /\ report' = NoStyleIssues
                     /\ pc' = "done"
                     /\ UNCHANGED raw_output
       \/ /\ ~java_on_path
          /\ report' = JavaNotFound
          /\ pc' = "done"
          /\ UNCHANGED <<spawned, raw_output>>
    /\ UNCHANGED <<language, jar_exists, java_on_path, lines, issues, indentation_issues>>
    /\ UNCHANGED reviewVars

NextChecker ==
    \/ CheckEnter
    \/ RunAnalyzer
    \/ FormatEnter
    \/ FormatLine
    \/ FormatReturn

SpecChecker == InitChecker /\ [][NextChecker]_vars

(***************************************************************************)
(* Properties of best_practices_review, checked under SpecReview.          *)
(***************************************************************************)
Returned == pc = "done" /\ language = "java"

RuleIds == <<"1", "2", "3", "4", "5", "6", "7">>

\* the finding line of rule k: `Guideline <id>. <explanation>`
Finding(k) == <<"Guideline ", k, ". ", guideline_explanations[k]>>

Found(k) == \E i \in 1..Len(suggestions) : suggestions[i] = Finding(k)

\* whether the detection pattern of rule k matches the text s
Triggers(k, s) ==
    CASE k = "1" -> Detect1(s)
      [] k = "2" -> Detect2(s)
      [] k = "3" -> Detect3(s)
      [] k = "4" -> Detect4(s)
      [] k = "5" -> Detect5(s)
      [] k = "6" -> Detect6(s)
      [] k = "7" -> Detect7(s)

\* max(0, 100 - k * floor(100 / 10))
ScoreOf(k) == IF 100 - k * (100 \div 10) > 0 THEN 100 - k * (100 \div 10) ELSE 0

\* the positions of the "==" of a comparison with null ("==", blanks, "null")
NullComparisons(s) ==
    {i \in Positions(s, "==") : At(s, RunEnd(s, i + 1, SpaceTokens)) = "null"}

\* C1: for every Java sample the returned score is max(0, 100 - k * floor(100/10))
\* with k the number of findings; so it is an integer in 0..100, it is 100 when
\* k = 0, and no smaller number of findings gives a smaller score.
C1_ScoreFormula ==
    Returned =>
        /\ compliance_score = ScoreOf(Len(suggestions))
        /\ compliance_score \in 0..100
        /\ (Len(suggestions) = 0 => compliance_score = 100)
        /\ \A j \in 0..Len(suggestions) : ScoreOf(j) >= compliance_score

C1_Witness == Returned /\ Len(suggestions) >= 3 /\ compliance_score <= 70

\* C2: for every Java sample in which no detection pattern matches, the score is
\* 100 and the rewritten text is the input text.
C2_NoTriggerNoRewrite ==
    (Returned /\ \A i \in 1..Len(RuleIds) : ~Triggers(RuleIds[i], code)) =>
        /\ compliance_score = 100
        /\ improved_code = code

\* a sample no rule detects although it holds a comparison with null and a loop
C2_Witness ==
    /\ Returned
    /\ \A i \in 1..Len(RuleIds) : ~Triggers(RuleIds[i], code)
    /\ NullComparisons(code) # {}
    /\ Positions(code, "for") # {}
    /\ compliance_score = 100

\* the findings of the rules of S, in rule-table order
RECURSIVE FindingsOf(_, _)
FindingsOf(S, i) ==
    IF i > Len(RuleIds) THEN <<>>
    ELSE (IF RuleIds[i] \in S THEN <<Finding(RuleIds[i])>> ELSE <<>>) \o FindingsOf(S, i + 1)

\* C4: for every Java sample the findings appear in rule-table order (ascending
\* rule id 1..7), at most one per rule however often its pattern matches, each
\* formatted `Guideline <id>. <explanation>` on a line of its own.
C4_OrderedOnePerRule ==
    Returned =>
        \E S \in SUBSET Range(RuleIds) :
            /\ suggestions = FindingsOf(S, 1)
            /\ result_text = IF S = {} THEN NoViolations
                             ELSE Join(FindingsOf(S, 1), "\n")

\* several rules trigger and the pattern of rule 3 matches more than once
C4_Witness ==
    /\ Returned
    /\ Len(suggestions) >= 3
    /\ Found("3")
    /\ Cardinality({i \in Positions(code, "==") :
                      At(code, i + 1) = " " /\ At(code, i + 2) = "null"}) >= 2

\* C5: for every Java sample and every rule, the rule contributes a finding if
\* and only if its detection pattern matches the original text; the rewrite of
\* an earlier rule neither creates nor suppresses the finding of a later rule.
C5_DetectionOnOriginal ==
    Returned => \A i \in 1..Len(RuleIds) : Found(RuleIds[i]) <=> Triggers(RuleIds[i], code)

\* rule 2 rewrote the text so that the pattern of rule 7 matches the original
\* but no longer the rewritten text, and rule 7 still reported its finding
C5_Witness ==
    /\ Returned
    /\ Found("2")
    /\ Found("7")
    /\ Detect7(code)
    /\ ~Detect7(Rewrite2(code))

\* C6: whenever rules 3 and 7 both trigger on a Java sample the rewritten text
\* reflects both edits: no public method declaration and no comparison with
\* null is left in it.
C6_StackedRewritesComplete ==
    (Returned /\ Found("3") /\ Found("7")) =>
        /\ ~Detect7(improved_code)
        /\ Positions(improved_code, "public") = {}
        /\ NullComparisons(improved_code) = {}

\* C7: whenever a Java sample holds a comparison with null, rule 3 triggers and
\* every such comparison is rewritten, so that none is left in the rewritten
\* text.
C7_NullComparisonRewritten ==
    (Returned /\ NullComparisons(code) # {}) =>
        /\ Found("3")
        /\ NullComparisons(improved_code) = {}

\* whether only blanks stand between positions i and a of s
BlankBetween(s, i, a) == \A j \in i + 1..a - 1 : s[j] \in SpaceTokens

\* whether none of the tokens of stop stands between positions a and p of s
FreeBetween(s, a, p, stop) == \A j \in a + 1..p - 1 : s[j] \notin stop

\* a loop header "for (init; condition; step)" on one line
HasCStyleHeader(s) ==
    \E i \in Positions(s, "for") : \E a \in Positions(s, "(") :
    \E c \in Positions(s, ";") : \E d \in Positions(s, ";") : \E p \in Positions(s, ")") :
        /\ i < a /\ a < c /\ c < d /\ d < p
        /\ BlankBetween(s, i, a)
        /\ FreeBetween(s, a, p, {"\n", ")", ":"})

\* a loop header "for (variable : iterable)": "for", blanks, "(", and on the
\* line of that "(" a ":" followed by a ")"
HasForEachHeader(s) ==
    \E i \in Positions(s, "for") : \E a \in Positions(s, "(") :
    \E c \in Positions(s, ":") : \E p \in Positions(s, ")") :
        /\ i < a /\ a < c /\ c < p
        /\ BlankBetween(s, i, a)
        /\ FreeBetween(s, a, p, {"\n"})

\* C8 as stated: every Java sample with a loop header of the form
\* `for (init; condition; step)` produces finding 2.
C8_CStyleTriggers == (Returned /\ HasCStyleHeader(code)) => Found("2")

\* C8 amended: rule 2 triggers on a for-each header, `for (variable : iterable)`
\* on one line: a Java sample produces finding 2 exactly when it holds such a
\* header, and 10 is deducted from its score for each of its findings.
C8_ForEachTriggers ==
    Returned =>
        /\ Found("2") <=> HasForEachHeader(code)
        /\ compliance_score = 100 - 10 * Len(suggestions)

\* a for-each header beside a C-style one: one finding, 10 deducted
C8_Witness ==
    /\ Returned
    /\ HasForEachHeader(code)
    /\ HasCStyleHeader(code)
    /\ suggestions = <<Finding("2")>>
    /\ compliance_score = 90

(***************************************************************************)
(* Properties of check_code_conventions, checked under SpecChecker.        *)
(***************************************************************************)
\* C3: the analyzer subprocess is started only when the language tag is java
\* and the analyzer artifact exists; a non-Java tag returns the fixed
\* "only available for Java" message with no subprocess, whether or not the
\* artifact exists; a missing artifact returns the fixed "not found" message
\* with no subprocess; a missing java executable ends in the fixed "not
\* installed" message.
C3_GuardedSubprocess ==
    /\ spawned > 0 => (language = "java" /\ jar_exists /\ java_on_path)
    /\ (pc = "done" /\ language # "java") =>
          /\ report = <<"Convention checks are currently only available for Java.">>
          /\ spawned = 0
    /\ (pc = "done" /\ language = "java" /\ ~jar_exists) =>
          /\ report = <<"Checkstyle not found. Please install and configure it properly.">>
          /\ spawned = 0
    /\ (pc = "done" /\ language = "java" /\ jar_exists /\ ~java_on_path) =>
          /\ report = <<"Java not found. Ensure Java is installed and added to PATH.">>
          /\ spawned = 0
    /\ pc \in {"check", "run", "fmt_enter", "fmt_loop", "done"}

\* a non-Java tag with the artifact missing: the "only for Java" message
C3_Witness ==
    /\ pc = "done"
    /\ language # "java"
    /\ ~jar_exists
    /\ report = ChecksUnsupported
    /\ spawned = 0

(***************************************************************************)
(* Properties of format_checkstyle_output, checked under SpecFormat.       *)
(***************************************************************************)
\* the token layout `[SEVERITY] path:line:col: message` with SEVERITY in sevs
HasLayout(l, sevs) ==
    /\ At(l, 1) \in sevs
    /\ At(l, 2) = " "
    /\ \E k \in 4..Len(l) : \E d1 \in k + 2..Len(l) : \E d2 \in d1 + 2..Len(l) :
          /\ l[k] = ":" /\ l[d1] = ":" /\ l[d2] = ":"
          /\ \A j \in k + 1..d1 - 1 : l[j] \in DigitTokens
          /\ \A j \in d1 + 1..d2 - 1 : l[j] \in DigitTokens
          /\ At(l, d2 + 1) = " "
          /\ d2 + 2 <= Len(l)

Severities == {"[WARN]", "[ERROR]"}

RawLines == Split(raw_output)

\* the number of diagnostics the report lists: the `Line L, Column C: message`
\* lines and the messages gathered under "Indentation Issues:"
RECURSIVE MessageCount(_)
MessageCount(dict) ==
    IF dict = <<>> THEN 0 ELSE Len(dict[1].messages) + MessageCount(Tail(dict))

Listed == Cardinality({i \in 1..Len(issues) : issues[i][1] = "Line "})
            + MessageCount(indentation_issues)

\* C9 as stated: every line of the layout is parsed as a diagnostic whatever its
\* severity, and the "no issues" message is returned only when no line has the
\* layout.
C9_AnySeverityParsed ==
    pc = "done" =>
        /\ Listed = Cardinality({i \in 1..Len(RawLines) : HasLayout(RawLines[i], Severities)})
        /\ report = NoStyleIssues =>
              \A i \in 1..Len(RawLines) : ~HasLayout(RawLines[i], Severities)

\* C9 amended: every line of the form `[WARN] path:line:col: message` is parsed
\* as a diagnostic; every other line, a line of the same layout with another
\* severity included, is dropped; the "no issues" message is returned exactly
\* when no line has the `[WARN]` layout.
C9_WarnOnlyParsed ==
    pc = "done" =>
        /\ Listed = Cardinality({i \in 1..Len(RawLines) : HasLayout(RawLines[i], {"[WARN]"})})
        /\ report = NoStyleIssues <=>
              \A i \in 1..Len(RawLines) : ~HasLayout(RawLines[i], {"[WARN]"})

\* an [ERROR] line of the layout dropped beside a [WARN] line reported
C9_Witness ==
    /\ pc = "done"
    /\ \E i \in 1..Len(RawLines) : HasLayout(RawLines[i], {"[ERROR]"})
    /\ \E i \in 1..Len(RawLines) : HasLayout(RawLines[i], {"[WARN]"})
    /\ \E i \in 1..Len(RawLines) : ~HasLayout(RawLines[i], Severities)
    /\ Listed = 1

\* the diagnostics of the raw output, in the order of the lines
RECURSIVE Diagnostics(_)
Diagnostics(ls) ==
    IF ls = <<>> THEN <<>>
    ELSE (IF MatchLine(ls[1]) # <<>> THEN <<MatchLine(ls[1])>> ELSE <<>>)
            \o Diagnostics(Tail(ls))

IsIndentationDiag(d) == IsIndentation(d.message)
IsOtherDiag(d) == ~IsIndentation(d.message)

\* the line numbers of the diagnostics ds, each once, in first-seen order
RECURSIVE FirstSeen(_, _)
FirstSeen(ds, seen) ==
    IF ds = <<>> THEN <<>>
    ELSE IF ds[1].line_no \in seen THEN FirstSeen(Tail(ds), seen)
    ELSE <<ds[1].line_no>> \o FirstSeen(Tail(ds), seen \cup {ds[1].line_no})

\* C10: the report lists the non-indentation diagnostics first, in the order
\* of the raw output, as `Line L, Column C: message`; then, if and only if
\* there is an indentation diagnostic, one "Indentation Issues:" header and one
\* summary line for each affected line number, in first-seen order of the line
\* numbers, holding each distinct message of that line once, comma-joined.
C10_ReportLayout ==
    pc = "done" =>
        LET ds == Diagnostics(RawLines)
            others == SelectSeq(ds, IsOtherDiag)
            indent == SelectSeq(ds, IsIndentationDiag)
            nums == FirstSeen(indent, {})
            n == Len(others)
        IN  /\ Len(issues) = n + (IF indent = <<>> THEN 0 ELSE 1 + Len(nums))
            /\ \A i \in 1..n :
                  issues[i] = <<"Line ">> \o others[i].line_no \o <<", Column ">>
                                \o others[i].col_no \o <<": ">> \o others[i].message
            /\ indent # <<>> =>
                  /\ issues[n + 1] = <<"Indentation Issues:">>
                  /\ \A i \in 1..Len(nums) :
                        LET msgs == {indent[j].message : j \in
                                       {j \in 1..Len(indent) : indent[j].line_no = nums[i]}}
                        IN  \E o \in [1..Cardinality(msgs) -> msgs] :
                               /\ Range(o) = msgs
                               /\ issues[n + 1 + i] =
                                     <<"   - Line ">> \o nums[i] \o <<": ">> \o Join(o, ", ")
            /\ report = IF issues = <<>> THEN NoStyleIssues ELSE Join(issues, "\n")

\* a line number with a repeated indentation message and a second, different one
C10_Witness ==
    /\ pc = "done"
    /\ \E i \in 1..Len(indentation_issues) :
          /\ Len(indentation_issues[i].messages) > Cardinality(Range(indentation_issues[i].messages))
          /\ Cardinality(Range(indentation_issues[i].messages)) >= 2

====
